---------------------------- MODULE Spec2Model ----------------------------
(***************************************************************************)
(* table-roller-node: the table resolver (rollDice, weightedRandom,        *)
(* processSelectedItem, rollTable) and the budget-constrained sampling     *)
(* loop of the most recent script (src/unnamed/part_002).                  *)
(*                                                                         *)
(* Conventions for JavaScript values:                                      *)
(*   - null / undefined / absent numeric fields (max_value, min_value,     *)
(*     value, weight, userMaxValue, filterMaxValue, maxValue) are 0: the   *)
(*     code only ever tests them for truthiness, and 0 is falsy like null. *)
(*     Where a claim tells an absent weight from 'weight: 0' the absent    *)
(*     one is Absent, which is falsy too.                                  *)
(*   - NaN (the sum of a number and undefined) is the number NaN below;    *)
(*     Plus and Gt give it JavaScript's arithmetic and comparison.         *)
(*   - an absent string (rarity, finalItemTable) is "".                    *)
(*   - an absent modifier is <<>>; a string modifier is a one-tag list.    *)
(***************************************************************************)
EXTENDS Integers, Sequences, FiniteSets, TLC

VARIABLES
  scen,              \* which table data set the data directory holds
  originTable,       \* argv.o
  numberOfResults,   \* argv.n
  config,            \* the global config object
  pc,                \* position of the script
  i,                 \* index of the result-set being built
  results,           \* items collected for the current result-set
  accumulatedValue,
  attempts,
  setRollCount,
  rollAttempts,
  result,            \* the Resolver result of the current roll
  emitted,           \* items printed for the last finished result-set
  diagnostic,        \* whether it ended with 'Could not generate a valid result'
  fn,                \* which pure function the function-level runs apply
  arg,               \* its input
  out                \* its output

vars == <<scen, originTable, numberOfResults, config, pc, i, results,
          accumulatedValue, attempts, setRollCount, rollAttempts, result,
          emitted, diagnostic, fn, arg, out>>

-----------------------------------------------------------------------------
(* JavaScript numbers *)

NaN == 0 - 1

IsNum(a) == a >= 0

Plus(a, b) == IF IsNum(a) /\ IsNum(b) THEN a + b ELSE NaN

Gt(a, b) == IsNum(a) /\ IsNum(b) /\ a > b

Truthy(a) == IsNum(a) /\ a # 0

\* a field the JSON object does not have (undefined)
Absent == 0 - 2

-----------------------------------------------------------------------------
(* Entries of a table *)

SPECIAL == "special_materials"

Leaf(name, weight, value, rarity, minv, maxv) ==
  [kind |-> "leaf", name |-> name, weight |-> weight, value |-> value,
   dice |-> <<>>, rarity |-> rarity, min_value |-> minv, max_value |-> maxv,
   modifier |-> <<>>, items |-> <<>>]

DiceLeaf(name, weight, dice) ==
  [kind |-> "leaf", name |-> name, weight |-> weight, value |-> 0,
   dice |-> dice, rarity |-> "", min_value |-> 0, max_value |-> 0,
   modifier |-> <<>>, items |-> <<>>]

TableRef(name, weight, modifier, value, maxv) ==
  [kind |-> "table", name |-> name, weight |-> weight, value |-> value,
   dice |-> <<>>, rarity |-> "", min_value |-> 0, max_value |-> maxv,
   modifier |-> modifier, items |-> <<>>]

Wrapper(items, weight, maxv) ==
  [kind |-> "wrapper", name |-> "", weight |-> weight, value |-> 0,
   dice |-> <<>>, rarity |-> "", min_value |-> 0, max_value |-> maxv,
   modifier |-> <<>>, items |-> items]

Bare(items) ==
  [kind |-> "array", name |-> "", weight |-> 0, value |-> 0,
   dice |-> <<>>, rarity |-> "", min_value |-> 0, max_value |-> 0,
   modifier |-> <<>>, items |-> items]

Undefined ==
  [kind |-> "undefined", name |-> "", weight |-> 0, value |-> 0,
   dice |-> <<>>, rarity |-> "", min_value |-> 0, max_value |-> 0,
   modifier |-> <<>>, items |-> <<>>]

Null ==
  [kind |-> "null", name |-> "", weight |-> 0, value |-> 0,
   dice |-> <<>>, rarity |-> "", min_value |-> 0, max_value |-> 0,
   modifier |-> <<>>, items |-> <<>>]

IsSetEntry(item) == item.kind \in {"array", "wrapper"}

-----------------------------------------------------------------------------
(* rollDice *)

\* dice numbered from 0: Math.floor(Math.random() * sides) without the '+ 1'
RECURSIVE DiceSumsFromZero(_, _)
DiceSumsFromZero(count, sides) ==
  IF count = 0 THEN {0}
  ELSE { t + d : t \in DiceSumsFromZero(count - 1, sides), d \in 0..(sides - 1) }

\* the for loop: count draws of Math.floor(Math.random() * sides) + 1
RECURSIVE DiceSums(_, _)
DiceSums(count, sides) ==
  IF count = 0 THEN {0}
  ELSE { t + d : t \in DiceSums(count - 1, sides), d \in 1..sides }

\* dice = <<count, sides, scalar>> stands for the notation "NdM*s"; a bare
\* "NdM" has scalar 1 here and goes through the last branch of the function.
rollDice(value, dice) ==
  IF dice = <<>> THEN {value}
  ELSE { t * dice[3] : t \in DiceSums(dice[1], dice[2]) }

HasValue(item) == Truthy(item.value) \/ item.dice # <<>>

-----------------------------------------------------------------------------
(* weightedRandom *)

Rarities == {"common", "uncommon", "rare"}

RarityOf(item) == IF item.rarity = "" THEN "common" ELSE item.rarity

PassesFilter(item, allowedRarities) ==
  IsSetEntry(item) \/ RarityOf(item) \in allowedRarities

filteredItems(items, allowedRarities) ==
  SelectSeq(items, LAMBDA item : PassesFilter(item, allowedRarities))

\* the selection without its fallback
itemsToUseFilteredOnly(items, allowedRarities) ==
  filteredItems(items, allowedRarities)

itemsToUse(items, allowedRarities) ==
  IF Len(filteredItems(items, allowedRarities)) > 0
  THEN filteredItems(items, allowedRarities)
  ELSE items

\* Array.isArray(item) ? 1 : (item.weight || 1)
itemWeight(item) ==
  IF item.kind = "array" THEN 1
  ELSE IF Truthy(item.weight) THEN item.weight ELSE 1

RECURSIVE currentWeight(_, _)
currentWeight(items, k) ==
  IF k = 0 THEN 0 ELSE currentWeight(items, k - 1) + itemWeight(items[k])

totalWeight(items) == currentWeight(items, Len(items))

\* Math.floor(Math.random() * totalWeight)
RandomBelow(total) == IF total > 0 THEN 0..(total - 1) ELSE {0}

\* the for loop: the first item whose cumulative weight is above the draw,
\* undefined when the loop ends without returning
PickAt(items, random) ==
  IF \E k \in 1..Len(items) : random < currentWeight(items, k)
  THEN items[CHOOSE k \in 1..Len(items) :
                /\ random < currentWeight(items, k)
                /\ \A j \in 1..(k - 1) : ~(random < currentWeight(items, j))]
  ELSE Undefined

weightedRandomAt(items, allowedRarities, random) ==
  PickAt(itemsToUse(items, allowedRarities), random)

weightedRandom(items, allowedRarities) ==
  { weightedRandomAt(items, allowedRarities, random) :
      random \in RandomBelow(totalWeight(itemsToUse(items, allowedRarities))) }

-----------------------------------------------------------------------------
(* the rarity draw of rollTable *)

\* Math.random() * 100, at integer resolution
RARITY_ROLL_RANGE == 100

\* the cumulative bands: a rare roll also admits uncommon and common entries
allowedRaritiesInclusive(rarityRoll, rareChance, uncommonChance) ==
  IF rarityRoll < rareChance THEN {"rare", "uncommon", "common"}
  ELSE IF rarityRoll < rareChance + uncommonChance THEN {"uncommon", "common"}
  ELSE {"common"}

allowedRaritiesFor(rarityRoll, rareChance, uncommonChance) ==
  IF rarityRoll < rareChance THEN {"rare"}
  ELSE IF rarityRoll < rareChance + uncommonChance THEN {"uncommon"}
  ELSE {"common"}

RarityDraws(rareChance, uncommonChance) ==
  { allowedRaritiesFor(r, rareChance, uncommonChance) :
      r \in 0..(RARITY_ROLL_RANGE - 1) }

-----------------------------------------------------------------------------
(* Resolver results.  Three fields are not in the JavaScript objects: parts
   logs every change of totalValue in the resolution, as [src, v] with v the
   amount added ('totalValue +=' for a reference, the leaf, a material bonus)
   or the difference the multiplier made, and every assignment to maxValue
   (src "max_value", v the value assigned), in the order executed; wrote is the last value the resolution stored in
   config.actualSetMaxValue (0: none); drawn keeps, for a set result, the
   max_value of the set entry that was drawn and the setTotalValue rollTable
   computed for it. *)

NoSet == [max_value |-> 0, sum |-> 0]

SingleResult(item, breadcrumb, modifiers, totalValue, maxValue, exceeded, finalItemTable, wrote, parts) ==
  [tag |-> "single", item |-> item, breadcrumb |-> breadcrumb,
   modifiers |-> modifiers, totalValue |-> totalValue, maxValue |-> maxValue,
   exceeded |-> exceeded, finalItemTable |-> finalItemTable,
   setResults |-> <<>>, wrote |-> wrote, parts |-> parts, cause |-> "",
   drawn |-> NoSet]

\* { isSet: true, setResults } and { isSet: true, setResults: [], exceeded:
\* true, maxValue }: a set result has no totalValue, breadcrumb or modifiers
\* (reading its totalValue gives undefined, which sums to NaN).
SetResult(setResults, exceeded, maxValue, wrote, drawn) ==
  [tag |-> "set", item |-> Null, breadcrumb |-> <<>>, modifiers |-> <<>>,
   totalValue |-> NaN, maxValue |-> maxValue, exceeded |-> exceeded,
   finalItemTable |-> "", setResults |-> setResults, wrote |-> wrote,
   parts |-> <<>>, cause |-> "", drawn |-> drawn]

\* an uncaught TypeError leaving the Resolver; cause names the statement
Thrown(wrote, cause) ==
  [tag |-> "throw", item |-> Null, breadcrumb |-> <<>>, modifiers |-> <<>>,
   totalValue |-> NaN, maxValue |-> 0, exceeded |-> FALSE,
   finalItemTable |-> "", setResults |-> <<>>, wrote |-> wrote,
   parts |-> <<>>, cause |-> cause, drawn |-> NoSet]

\* result = null
NullResult ==
  [tag |-> "null", item |-> Null, breadcrumb |-> <<>>, modifiers |-> <<>>,
   totalValue |-> NaN, maxValue |-> 0, exceeded |-> FALSE,
   finalItemTable |-> "", setResults |-> <<>>, wrote |-> 0,
   parts |-> <<>>, cause |-> "", drawn |-> NoSet]

LastWrite(later, earlier) == IF later # 0 THEN later ELSE earlier

WithWrite(r, earlier) == [r EXCEPT !.wrote = LastWrite(r.wrote, earlier)]

-----------------------------------------------------------------------------
(* processSelectedItem, piece by piece *)

\* the two early returns: the selection's max_value or min_value is above
\* config.userMaxValue
exceedsUserMax(selectedItem) ==
  \/ /\ Truthy(config.userMaxValue)
     /\ Truthy(selectedItem.max_value)
     /\ selectedItem.max_value > config.userMaxValue
  \/ /\ config.userMaxValue # 0
     /\ Truthy(selectedItem.min_value)
     /\ selectedItem.min_value > config.userMaxValue

\* a routing that lets every tag through to the modifiers
plainModifiersUnrouted(modifier) == modifier

\* the tags of one reference that go to modifiers
plainModifiers(modifier) == SelectSeq(modifier, LAMBDA mod : mod # SPECIAL)

pendingSpecialModifiers(modifier) ==
  SelectSeq(modifier, LAMBDA mod : mod = SPECIAL)

Part(src, v) == [src |-> src, v |-> v]

RECURSIVE SumParts(_)
SumParts(ps) == IF ps = <<>> THEN 0 ELSE ps[1].v + SumParts(Tail(ps))

\* 'if (selectedItem.modifier && selectedItem.value) totalValue += rollDice()'
refParts(selectedItem) ==
  IF selectedItem.modifier # <<>> /\ HasValue(selectedItem)
  THEN { << Part("ref", d) >> : d \in rollDice(selectedItem.value, selectedItem.dice) }
  ELSE { <<>> }

\* 'if (selectedItem.max_value) maxValue = selectedItem.max_value'
refMaxValue(selectedItem, maxValue) ==
  IF Truthy(selectedItem.max_value) THEN selectedItem.max_value ELSE maxValue

\* a terminal table that keeps the first table entered
nextFinalItemTableFirstHop(selectedItem, finalItemTable) ==
  IF finalItemTable = "" THEN selectedItem.name ELSE finalItemTable

\* 'finalItemTable = selectedItem.name'
nextFinalItemTable(selectedItem, finalItemTable) == selectedItem.name

maxValueParts(selectedItem, maxValue) ==
  IF Truthy(selectedItem.max_value)
  THEN << Part("max_value", refMaxValue(selectedItem, maxValue)) >>
  ELSE <<>>

\* 'if (selectedItem.value) { ... totalValue += rolledValue }', which runs on
\* whatever selectedItem is once the while loop is left
leafParts(selectedItem) ==
  IF HasValue(selectedItem)
  THEN { << Part("leaf", d) >> : d \in rollDice(selectedItem.value, selectedItem.dice) }
  ELSE { <<>> }

NoMultiplier == [num |-> 1, den |-> 1]

compatibleMaterials(materials, finalItemTable) ==
  SelectSeq(materials, LAMBDA material : finalItemTable \in DOMAIN material.value)

\* one pass of the loop over pendingSpecialModifiers, for one selected material
applyMaterial(st, selectedMaterial, finalItemTable) ==
  LET materialValue == selectedMaterial.value[finalItemTable]
      mods == Append(st.modifiers, selectedMaterial.name)
  IN  IF materialValue.kind = "multiplier"
      THEN [st EXCEPT !.modifiers = mods,
                      !.mult = [num |-> materialValue.num, den |-> materialValue.den]]
      ELSE IF materialValue.kind = "number" /\ materialValue.num # 0
      THEN [st EXCEPT !.modifiers = mods,
                      !.totalValue = st.totalValue + materialValue.num,
                      !.parts = Append(st.parts, Part("material", materialValue.num))]
      ELSE [st EXCEPT !.modifiers = mods]

RECURSIVE materialLoop(_, _, _, _)
materialLoop(n, st, materials, finalItemTable) ==
  IF n = 0 THEN {st}
  ELSE IF finalItemTable = ""
          \/ Len(compatibleMaterials(materials, finalItemTable)) = 0
  THEN materialLoop(n - 1, st, materials, finalItemTable)
  ELSE UNION { materialLoop(n - 1, applyMaterial(st, m, finalItemTable),
                            materials, finalItemTable) :
               m \in weightedRandom(compatibleMaterials(materials, finalItemTable),
                                    Rarities) }

\* a multiplier that divides
applyMultiplierInverted(totalValue, mult) ==
  IF mult.num # mult.den THEN (totalValue * mult.den) \div mult.num
  ELSE totalValue

\* 'if (materialMultiplier !== 1) totalValue = Math.floor(totalValue * m)'
applyMultiplier(totalValue, mult) ==
  IF mult.num # mult.den THEN (totalValue * mult.num) \div mult.den
  ELSE totalValue

\* the change 'totalValue = Math.floor(totalValue * materialMultiplier)' makes
multiplierParts(totalValue, mult) ==
  IF mult.num # mult.den
  THEN << Part("multiplier", applyMultiplier(totalValue, mult) - totalValue) >>
  ELSE <<>>

-----------------------------------------------------------------------------
(* The data directory: one JSON file per table, and special_materials.json *)

Multiplier(num, den) == [kind |-> "multiplier", num |-> num, den |-> den]

Bonus(n) == [kind |-> "number", num |-> n, den |-> 1]

Material(name, weight, value) ==
  [kind |-> "material", name |-> name, weight |-> weight, rarity |-> "",
   value |-> value]

NoMaterials == <<>>

\* 1: armor and its sub-tables, no modifiers anywhere (the armor example),
\* and a table that refers to itself
ArmorData ==
  [gear |-> << TableRef("armor", 1, <<>>, 0, 0) >>,
   armor |-> << TableRef("light_armor", 1, <<>>, 5, 0),
                TableRef("heavy_armor", 2, <<>>, 0, 0) >>,
   light_armor |-> << Leaf("Leather Armor", 1, 10, "", 0, 0),
                      Leaf("Padded Armor", 1, 0, "uncommon", 0, 0) >>,
   heavy_armor |-> << Leaf("Plate", 0, 3, "rare", 0, 0),
                      Leaf("Chain", 2, 4, "", 0, 0) >>,
   maze |-> << TableRef("maze", 1, <<>>, 0, 0),
               Leaf("Exit", 1, 1, "", 0, 0) >>]

\* 2: loot with a set, an entry priced out by max_value, one by min_value
LootData ==
  [loot |-> << Leaf("Gem", 1, 2, "", 0, 0),
               Leaf("Ring", 1, 3, "", 0, 0),
               Leaf("Crown", 1, 1, "", 0, 9),
               Wrapper(<< Leaf("Coin", 1, 1, "", 0, 0),
                          Leaf("Bead", 1, 1, "", 0, 0) >>, 1, 0) >>,
   vault |-> << Leaf("Idol", 1, 9, "", 9, 0) >>,
   treasury |-> << TableRef("vault", 1, <<>>, 0, 0),
                   Leaf("Gem", 1, 2, "", 0, 0) >>,
   cursed |-> << TableRef("relics", 1, <<>>, 0, 1) >>,
   outer |-> << TableRef("inner", 1, <<>>, 0, 2) >>,
   inner |-> << TableRef("relics", 1, <<>>, 0, 20) >>,
   relics |-> << Leaf("Skull", 1, 5, "", 0, 0) >>]

\* 3: a set one of whose members is a reference to a table that holds a set
HoardData ==
  [hoard |-> << Bare(<< Leaf("Coin", 1, 2, "", 0, 0),
                        TableRef("pouch", 1, <<>>, 0, 0) >>) >>,
   pouch |-> << Bare(<< Leaf("Pearl", 1, 3, "", 0, 0) >>) >>,
   bag |-> << TableRef("pouch", 1, <<>>, 0, 0) >>]

\* 4: special materials
ShopData ==
  [shop |-> << TableRef("weapons", 1, << SPECIAL >>, 0, 0),
               TableRef("weapons", 1, << "masterwork", SPECIAL >>, 5, 0),
               TableRef("trinkets", 1, << SPECIAL >>, 0, 0) >>,
   weapons |-> << Leaf("Sword", 1, 50, "", 0, 0) >>,
   trinkets |-> << Leaf("Charm", 1, 7, "", 0, 0) >>,
   forge |-> << TableRef("blades", 1, << SPECIAL >>, 0, 0),
                TableRef("weapons", 1, << SPECIAL, SPECIAL >>, 0, 0) >>,
   blades |-> << TableRef("weapons", 1, << SPECIAL >>, 0, 0) >>,
   bundle |-> << Bare(<< TableRef("weapons", 1, << "masterwork" >>, 5, 0),
                         TableRef("trinkets", 1, << "lucky" >>, 0, 0) >>),
                 Bare(<< TableRef("trinkets", 1, << "lucky" >>, 0, 0),
                         TableRef("weapons", 1, << "masterwork" >>, 5, 0) >>) >>]

ShopMaterials ==
  << Material("Mithral", 1, [weapons |-> Multiplier(2, 1)]),
     Material("Silver", 1, [weapons |-> Bonus(4), trinkets |-> Multiplier(3, 2)]),
     Material("Tin", 1, [trinkets |-> Multiplier(1, 2)]) >>

\* 5: sets with a max_value of their own, one with a dice value
ChestData ==
  [chest |-> << Wrapper(<< Leaf("Coin", 1, 2, "", 0, 0),
                           DiceLeaf("Gems", 1, <<1, 3, 1>>) >>, 1, 3),
                Wrapper(<< Leaf("Bar", 1, 6, "", 0, 0) >>, 1, 6),
                Leaf("Dust", 1, 1, "", 0, 0) >>]

\* 6: a chain of five table references, with leaves on the way
DeepData ==
  [level1 |-> << TableRef("level2", 1, <<>>, 0, 0),
                 Leaf("Shard", 1, 1, "", 0, 0) >>,
   level2 |-> << TableRef("level3", 1, <<>>, 0, 0) >>,
   level3 |-> << TableRef("level4", 1, <<>>, 0, 0),
                 Leaf("Splinter", 1, 1, "", 0, 0) >>,
   level4 |-> << TableRef("level5", 1, <<>>, 0, 0) >>,
   level5 |-> << TableRef("level6", 1, <<>>, 0, 0) >>,
   level6 |-> << Leaf("Core", 1, 1, "", 0, 0) >>]

DataDir(s) ==
  CASE s = 1 -> ArmorData
    [] s = 2 -> LootData
    [] s = 3 -> HoardData
    [] s = 4 -> ShopData
    [] s = 5 -> ChestData
    [] s = 6 -> DeepData

MaterialsOf(s) == IF s = 4 THEN ShopMaterials ELSE NoMaterials

\* JSON.parse(fs.readFileSync(<tableName>.json))
TableData(tableName) == DataDir(scen)[tableName]

specialMaterialsData == MaterialsOf(scen)

-----------------------------------------------------------------------------
(* processSelectedItem and rollTable.  Each gives the set of results the call
   can return, over the random draws made inside it. *)

\* longest breadcrumb from which a table reference is still followed: a
\* table may refer to itself, and the resolution of a draw that goes deeper
\* is not followed
MaxDepth == 6

RECURSIVE processSelectedItem(_, _, _, _, _, _, _)
RECURSIVE rollTable(_, _, _, _, _, _, _)
RECURSIVE expandSet(_, _, _, _, _, _, _, _)
RECURSIVE expandSetSharing(_, _, _, _, _, _, _, _)

\* from 'Add the final item's value' to the return
finishItem(selectedItem, breadcrumb, modifiers, totalValue, maxValue, finalItemTable, parts, pending, wrote) ==
  { SingleResult(selectedItem, breadcrumb, st.modifiers,
                 applyMultiplier(st.totalValue, st.mult), maxValue, FALSE,
                 finalItemTable, wrote,
                 st.parts \o multiplierParts(st.totalValue, st.mult)) :
      st \in UNION { materialLoop(Len(pending),
                                  [modifiers |-> modifiers,
                                   totalValue |-> totalValue + SumParts(lp),
                                   mult |-> NoMultiplier,
                                   parts |-> parts \o lp],
                                  specialMaterialsData, finalItemTable) :
                     lp \in leafParts(selectedItem) } }

\* what processSelectedItem does with the result of the nested rollTable
afterNested(nestedResult, pending) ==
  IF nestedResult.tag \in {"throw", "set"} THEN {nestedResult}
  ELSE IF nestedResult.item = Null
  THEN {Thrown(nestedResult.wrote, "selectedItem.value of null")}
  ELSE finishItem(nestedResult.item, nestedResult.breadcrumb,
                  nestedResult.modifiers, nestedResult.totalValue,
                  nestedResult.maxValue, nestedResult.finalItemTable,
                  nestedResult.parts, pending, nestedResult.wrote)

processSelectedItem(selectedItem, breadcrumb, modifiers, totalValue, maxValue, finalItemTable, parts) ==
  IF exceedsUserMax(selectedItem)
  THEN {SingleResult(Null, breadcrumb, modifiers, totalValue, maxValue, TRUE,
                     finalItemTable, 0, parts)}
  ELSE IF selectedItem.kind = "table" /\ Len(breadcrumb) >= MaxDepth
  THEN {}
  ELSE IF selectedItem.kind = "table"
  THEN UNION { afterNested(nestedResult, pendingSpecialModifiers(selectedItem.modifier)) :
                 nestedResult \in UNION {
                   rollTable(selectedItem.name,
                             Append(breadcrumb, selectedItem.name),
                             modifiers \o plainModifiers(selectedItem.modifier),
                             totalValue + SumParts(rp),
                             refMaxValue(selectedItem, maxValue),
                             nextFinalItemTable(selectedItem, finalItemTable),
                             parts \o rp \o maxValueParts(selectedItem, maxValue)) :
                     rp \in refParts(selectedItem) } }
  ELSE finishItem(selectedItem, breadcrumb, modifiers, totalValue, maxValue,
                  finalItemTable, parts, <<>>, 0)

\* an expansion without the copies: each member goes on from the breadcrumb
\* and the modifiers the member before it left behind
expandSetSharing(items, k, breadcrumb, modifiers, totalValue, maxValue, finalItemTable, parts) ==
  IF k > Len(items) THEN { <<>> }
  ELSE UNION {
         IF itemResult.tag = "throw" THEN { << itemResult >> }
         ELSE { << itemResult >> \o rest :
                  rest \in expandSetSharing(
                             items, k + 1,
                             IF itemResult.tag = "single" THEN itemResult.breadcrumb
                             ELSE breadcrumb,
                             IF itemResult.tag = "single" THEN itemResult.modifiers
                             ELSE modifiers,
                             totalValue, maxValue, finalItemTable, parts) } :
         itemResult \in processSelectedItem(items[k], breadcrumb, modifiers,
                                            totalValue, maxValue, finalItemTable, parts) }

\* the results of the members from the k-th on, in order, each started from
\* breadcrumb.slice() and modifiers.slice(); a member that throws ends the
\* expansion
expandSet(items, k, breadcrumb, modifiers, totalValue, maxValue, finalItemTable, parts) ==
  IF k > Len(items) THEN { <<>> }
  ELSE UNION {
         IF itemResult.tag = "throw" THEN { << itemResult >> }
         ELSE { << itemResult >> \o rest :
                  rest \in expandSet(items, k + 1, breadcrumb, modifiers,
                                     totalValue, maxValue, finalItemTable, parts) } :
         itemResult \in processSelectedItem(items[k], breadcrumb, modifiers,
                                            totalValue, maxValue, finalItemTable, parts) }

RECURSIVE setTotalValue(_)
setTotalValue(setResults) ==
  IF setResults = <<>> THEN 0
  ELSE Plus(setTotalValue(SubSeq(setResults, 1, Len(setResults) - 1)),
            setResults[Len(setResults)].totalValue)

RECURSIVE lastWriteOf(_, _)
lastWriteOf(setResults, earlier) ==
  IF setResults = <<>> THEN earlier
  ELSE LastWrite(setResults[Len(setResults)].wrote,
                 lastWriteOf(SubSeq(setResults, 1, Len(setResults) - 1), earlier))

effectiveLimit(selectedItem) ==
  IF Truthy(config.userMaxValue) /\ config.userMaxValue > selectedItem.max_value
  THEN config.userMaxValue
  ELSE selectedItem.max_value

drawnSet(selectedItem, setResults) ==
  [max_value |-> selectedItem.max_value, sum |-> setTotalValue(setResults)]

\* a set branch that drops the last member of a set above its limit
closeSetKeepingTheRest(selectedItem, setResults, wrote) ==
  IF setResults # <<>> /\ setResults[Len(setResults)].tag = "throw"
  THEN Thrown(lastWriteOf(setResults, wrote), setResults[Len(setResults)].cause)
  ELSE IF /\ Truthy(selectedItem.max_value)
          /\ Gt(setTotalValue(setResults), effectiveLimit(selectedItem))
  THEN SetResult(SubSeq(setResults, 1, Len(setResults) - 1), FALSE, 0,
                 lastWriteOf(setResults, wrote), drawnSet(selectedItem, setResults))
  ELSE SetResult(setResults, FALSE, 0, lastWriteOf(setResults, wrote),
                 drawnSet(selectedItem, setResults))

\* the end of the set branch of rollTable
closeSet(selectedItem, setResults, wrote) ==
  IF setResults # <<>> /\ setResults[Len(setResults)].tag = "throw"
  THEN Thrown(lastWriteOf(setResults, wrote), setResults[Len(setResults)].cause)
  ELSE IF /\ Truthy(selectedItem.max_value)
          /\ Gt(setTotalValue(setResults), effectiveLimit(selectedItem))
  THEN SetResult(<<>>, TRUE, selectedItem.max_value,
                 lastWriteOf(setResults, wrote), drawnSet(selectedItem, setResults))
  ELSE SetResult(setResults, FALSE, 0, lastWriteOf(setResults, wrote),
                 drawnSet(selectedItem, setResults))

\* a breadcrumb that gets the table name whatever its last entry is
pushTableAlways(breadcrumb, tableName) == Append(breadcrumb, tableName)

pushTable(breadcrumb, tableName) ==
  IF Len(breadcrumb) = 0 \/ breadcrumb[Len(breadcrumb)] # tableName
  THEN Append(breadcrumb, tableName)
  ELSE breadcrumb

validItems(tableData) ==
  SelectSeq(tableData, LAMBDA item : Truthy(item.max_value)
                                     /\ item.max_value <= config.filterMaxValue)

\* the lowest max_value instead of the highest
closestMaxValueLowest(items) ==
  CHOOSE m \in { items[k].max_value : k \in 1..Len(items) } :
    \A k \in 1..Len(items) : items[k].max_value >= m

\* Math.max(...validItems.map(item => item.max_value))
closestMaxValue(items) ==
  CHOOSE m \in { items[k].max_value : k \in 1..Len(items) } :
    \A k \in 1..Len(items) : items[k].max_value <= m

filterActive(tableData) ==
  config.filterMaxValue # 0 /\ Len(validItems(tableData)) > 0

filteredTable(tableData) ==
  IF filterActive(tableData)
  THEN SelectSeq(validItems(tableData),
                 LAMBDA item : item.max_value = closestMaxValue(validItems(tableData)))
  ELSE tableData

\* a write of the ceiling asked for instead of the tier found
actualSetMaxValueAsCeiling(tableData) ==
  IF filterActive(tableData) THEN config.filterMaxValue ELSE 0

\* config.actualSetMaxValue = closestMaxValue (0: no write)
actualSetMaxValueWritten(tableData) ==
  IF filterActive(tableData) THEN closestMaxValue(validItems(tableData)) ELSE 0

\* rollTable once selectedItem is drawn
afterSelect(selectedItem, breadcrumb, modifiers, totalValue, maxValue, finalItemTable, parts, wrote) ==
  IF selectedItem.kind = "undefined"
  THEN {Thrown(wrote, "selectedItem.items of undefined")}
  ELSE IF IsSetEntry(selectedItem)
  THEN { closeSet(selectedItem, setResults, wrote) :
           setResults \in expandSet(selectedItem.items, 1, breadcrumb, modifiers,
                                    totalValue, maxValue, finalItemTable, parts) }
  ELSE { WithWrite(r, wrote) :
           r \in processSelectedItem(selectedItem, breadcrumb, modifiers,
                                     totalValue, maxValue, finalItemTable, parts) }

rollTable(tableName, breadcrumb, modifiers, totalValue, maxValue, finalItemTable, parts) ==
  UNION { afterSelect(selectedItem, pushTable(breadcrumb, tableName), modifiers,
                      totalValue, maxValue, finalItemTable, parts,
                      actualSetMaxValueWritten(TableData(tableName))) :
            selectedItem \in UNION {
              weightedRandom(filteredTable(TableData(tableName)), allowedRarities) :
                allowedRarities \in RarityDraws(config.rareChance, config.uncommonChance) } }

-----------------------------------------------------------------------------
(* The script: configuration and the main loop *)

MAX_REROLL_ATTEMPTS == 1000

MAX_ITEMS_OUTPUT == 100

Min(a, b) == IF a < b THEN a ELSE b

createMultipleResultSets == config.userMaxValue = 0

\* the number of result-sets without the output cap
numResultSetsUncapped ==
  IF createMultipleResultSets THEN numberOfResults ELSE 1

numResultSets ==
  IF createMultipleResultSets THEN Min(numberOfResults, MAX_ITEMS_OUTPUT) ELSE 1

targetItemCount ==
  IF config.userMaxValue # 0
  THEN (IF numberOfResults > 1 THEN Min(numberOfResults, MAX_ITEMS_OUTPUT)
        ELSE Min(MAX_REROLL_ATTEMPTS, MAX_ITEMS_OUTPUT))
  ELSE 1

\* remainingBudget is null exactly when no budget is set
hasRemainingBudget == config.userMaxValue # 0

remainingBudget ==
  IF IsNum(accumulatedValue) THEN config.userMaxValue - accumulatedValue ELSE NaN

\* a - b can be below 0 here, so the comparison is on integers
overBudget(totalValue) ==
  /\ hasRemainingBudget
  /\ IsNum(totalValue)
  /\ IsNum(accumulatedValue)
  /\ totalValue > remainingBudget

overOwnMax(r) == Truthy(r.maxValue) /\ Gt(r.totalValue, r.maxValue)

\* the for loop over result.setResults, with its breaks
setExceeded(setResults) ==
  \E k \in 1..Len(setResults) : setResults[k].exceeded \/ overOwnMax(setResults[k])

shouldReroll(r) ==
  IF r.tag = "set"
  THEN \/ r.exceeded
       \/ setExceeded(r.setResults)
       \/ overBudget(setTotalValue(r.setResults))
  ELSE \/ r.exceeded
       \/ overOwnMax(r)
       \/ overBudget(r.totalValue)

\* a reroll loop that gives up one call late
giveUpOneLate(attemptsMade) == attemptsMade > MAX_REROLL_ATTEMPTS

\* rollAttempts >= MAX_REROLL_ATTEMPTS
giveUp(attemptsMade) == attemptsMade >= MAX_REROLL_ATTEMPTS

\* a reroll counter that is never advanced
countAttemptStuck(n) == n

\* rollAttempts++
countAttempt(n) == n + 1

\* 'if (!result || (result.isSet && ...length === 0) || (!result.isSet && !result.item))'
couldNotFind(r) ==
  \/ r.tag = "null"
  \/ r.tag = "set" /\ Len(r.setResults) = 0
  \/ r.tag = "single" /\ r.item = Null

\* items added without their mark: every setIndex stays at its first value
itemsOfUnmarked(r, setIndex) ==
  IF r.tag = "set"
  THEN [k \in 1..Len(r.setResults) |-> [res |-> r.setResults[k], setIndex |-> 0]]
  ELSE << [res |-> r, setIndex |-> 0] >>

\* the items one accepted result adds, each marked with the set index
itemsOf(r, setIndex) ==
  IF r.tag = "set"
  THEN [k \in 1..Len(r.setResults) |-> [res |-> r.setResults[k], setIndex |-> setIndex]]
  ELSE << [res |-> r, setIndex |-> setIndex] >>

valueOf(r) == IF r.tag = "set" THEN setTotalValue(r.setResults) ELSE r.totalValue

\* stop conditions that only know the output cap
stopAtOutputCapOnly(attemptsNow) == attemptsNow >= MAX_ITEMS_OUTPUT

stopAccumulating(attemptsNow) ==
  \/ config.userMaxValue = 0
  \/ attemptsNow >= targetItemCount
  \/ attemptsNow >= MAX_REROLL_ATTEMPTS

\* one pass of the do-while: rollTable, rollAttempts++, the reroll decision
Roll ==
  /\ pc = "roll"
  /\ \E r \in rollTable(originTable, <<>>, <<>>, 0, 0, "", <<>>) :
       /\ config' = [config EXCEPT !.actualSetMaxValue = LastWrite(r.wrote, @)]
       /\ IF r.tag = "throw"
          THEN /\ result' = r
               /\ pc' = "crashed"
               /\ UNCHANGED rollAttempts
          ELSE /\ rollAttempts' = countAttempt(rollAttempts)
               /\ IF shouldReroll(r)
                  THEN IF giveUp(countAttempt(rollAttempts))
                       THEN result' = NullResult /\ pc' = "collect"
                       ELSE result' = r /\ pc' = "roll"
                  ELSE result' = r /\ pc' = "collect"
  /\ UNCHANGED <<scen, originTable, numberOfResults, i, results,
                 accumulatedValue, attempts, setRollCount, emitted,
                 diagnostic, fn, arg, out>>

\* from 'If we couldn't find a valid item' to the stop conditions
Collect ==
  /\ pc = "collect"
  /\ IF couldNotFind(result)
     THEN /\ pc' = "output"
          /\ UNCHANGED <<results, accumulatedValue, attempts, setRollCount>>
     ELSE /\ results' = results \o itemsOf(result, setRollCount)
          /\ accumulatedValue' = Plus(accumulatedValue, valueOf(result))
          /\ attempts' = attempts + Len(itemsOf(result, setRollCount))
          /\ setRollCount' = setRollCount + 1
          /\ pc' = IF stopAccumulating(attempts + Len(itemsOf(result, setRollCount)))
                   THEN "output" ELSE "roll"
  /\ rollAttempts' = 0
  /\ UNCHANGED <<scen, originTable, numberOfResults, config, i, result,
                 emitted, diagnostic, fn, arg, out>>

\* the items printed before the loop over results ends or throws
printable(rs) ==
  IF \E k \in 1..Len(rs) : rs[k].res.tag # "single"
  THEN (CHOOSE k \in 1..Len(rs) :
          /\ rs[k].res.tag # "single"
          /\ \A j \in 1..(k - 1) : rs[j].res.tag = "single") - 1
  ELSE Len(rs)

\* an output section that has lost its else branch
noResultsNeverReported(rs) == FALSE

\* the else branch of 'if (results.length > 0)'
noResults(rs) == Len(rs) = 0

\* the output section; reading result.modifiers.length of a set result throws
Output ==
  /\ pc = "output"
  /\ emitted' = printable(results)
  /\ diagnostic' = noResults(results)
  /\ pc' = IF printable(results) < Len(results) THEN "crashed" ELSE "next"
  /\ UNCHANGED <<scen, originTable, numberOfResults, config, i, results,
                 accumulatedValue, attempts, setRollCount, rollAttempts,
                 result, fn, arg, out>>

\* 'i++; i < numResultSets' and the declarations at the top of the loop body
NextSet ==
  /\ pc = "next"
  /\ i' = i + 1
  /\ IF i + 1 < numResultSets
     THEN /\ pc' = "roll"
          /\ results' = <<>>
          /\ accumulatedValue' = 0
          /\ attempts' = 0
          /\ setRollCount' = 0
          /\ rollAttempts' = 0
     ELSE /\ pc' = "done"
          /\ UNCHANGED <<results, accumulatedValue, attempts, setRollCount,
                         rollAttempts>>
  /\ UNCHANGED <<scen, originTable, numberOfResults, config, result, emitted,
                 diagnostic, fn, arg, out>>

-----------------------------------------------------------------------------
(* Command lines and data the runs start from *)

\* -v for the loot tables
LootBudget == 4

\* -v for the hoard tables
HoardBudget == 3

\* -v for the chest table
ChestBudget == 4

\* -n, a small count
SmallCount == 3

\* -n, a count above MAX_ITEMS_OUTPUT
LargeCount == 101

Run(s, o, n, v) == [scen |-> s, origin |-> o, n |-> n, v |-> v, max |-> FALSE]

\* a command line with --max
RunMax(s, o, n, v) == [scen |-> s, origin |-> o, n |-> n, v |-> v, max |-> TRUE]

Runs ==
  { Run(1, o, n, 0) : o \in {"gear", "armor", "light_armor"}, n \in {1, SmallCount} }
  \cup { Run(1, "maze", 1, 0) }
  \cup { Run(1, "light_armor", LargeCount, 0) }
  \cup { Run(2, "loot", n, v) : n \in {1, SmallCount}, v \in {0, LootBudget} }
  \cup { Run(2, o, 1, LootBudget) : o \in {"vault", "treasury"} }
  \cup { Run(2, "cursed", 2, 0) }
  \cup { Run(2, "outer", 1, 0) }
  \cup { Run(3, "hoard", n, v) : n \in {1, SmallCount}, v \in {0, HoardBudget} }
  \cup { Run(3, "bag", 1, HoardBudget) }
  \cup { Run(4, o, 1, 0) : o \in {"shop", "forge", "bundle"} }
  \cup { Run(5, "chest", 1, v) : v \in {0, ChestBudget} }
  \cup { RunMax(5, "chest", 1, ChestBudget) }
  \cup { Run(6, o, 1, 0) : o \in {"level1", "level4"} }

\* the config object after 'Populate global config object'
configOf(run) ==
  [userMaxValue |-> run.v,
   filterMaxValue |-> IF run.max THEN run.v ELSE 0,
   actualSetMaxValue |-> 0,
   rareChance |-> 10,
   uncommonChance |-> 20]

StartOf(run) ==
    /\ scen = run.scen
    /\ originTable = run.origin
    /\ numberOfResults = run.n
    /\ config = configOf(run)
    /\ pc = "roll"
    /\ i = 0
    /\ results = <<>>
    /\ accumulatedValue = 0
    /\ attempts = 0
    /\ setRollCount = 0
    /\ rollAttempts = 0
    /\ result = NullResult
    /\ emitted = 0
    /\ diagnostic = FALSE
    /\ fn = "none"
    /\ arg = <<>>
    /\ out = [done |-> FALSE, val |-> {}]

Init == \E run \in Runs : StartOf(run)

Next == Roll \/ Collect \/ Output \/ NextSet

Spec == Init /\ [][Next]_vars

\* the runs followed to their end: those where no roll can ever be accepted,
\* one that fills its budget and then fails every roll, one that throws, and
\* runs that accept every roll
FairRuns ==
  { Run(1, "armor", SmallCount, 0),
    Run(2, "loot", 2, 0),
    Run(2, "vault", 1, LootBudget),
    Run(2, "treasury", 1, LootBudget),
    Run(2, "cursed", 2, 0),
    Run(3, "hoard", 1, HoardBudget),
    Run(3, "bag", SmallCount, HoardBudget),
    Run(4, "shop", 1, 0),
    Run(4, "forge", 1, 0) }

FairInit == \E run \in FairRuns : StartOf(run)

\* the script runs on until it ends or throws
FairSpec == FairInit /\ [][Next]_vars /\ WF_vars(Next)

-----------------------------------------------------------------------------
(* The earlier script (src/index.js, the second script of the file): attempt
   ceiling 100, the remaining budget handed to rollTable as userMaxValue, table
   references walked in one loop.  What it shares with the latest script word
   for word (the rarity draw, the max_value filter, the leaf value, the
   materials, the output section, the loop over result-sets) is taken from the
   definitions above.  A budget handed around is [some, n]: null is
   some = FALSE, and n may be 0 or negative. *)

EARLIER_MAX_REROLL_ATTEMPTS == 100

NoBudget == [some |-> FALSE, n |-> 0]

\* 'userMaxValue ? userMaxValue - accumulatedValue : null'
earlierRemainingBudget ==
  IF config.userMaxValue # 0
  THEN [some |-> TRUE, n |-> config.userMaxValue - accumulatedValue]
  ELSE NoBudget

\* 'remainingBudget && ...': null and 0 are both falsy
earlierBudgetTruthy(budget) == budget.some /\ budget.n # 0

\* item.weight, without a default
earlierItemWeight(item) == IF item.kind = "array" THEN 1 ELSE item.weight

RECURSIVE earlierCurrentWeight(_, _)
earlierCurrentWeight(items, k) ==
  IF k = 0 THEN 0
  ELSE earlierCurrentWeight(items, k - 1) + earlierItemWeight(items[k])

earlierPickAt(items, random) ==
  IF \E k \in 1..Len(items) : random < earlierCurrentWeight(items, k)
  THEN items[CHOOSE k \in 1..Len(items) :
                /\ random < earlierCurrentWeight(items, k)
                /\ \A j \in 1..(k - 1) : ~(random < earlierCurrentWeight(items, j))]
  ELSE Undefined

earlierWeightedRandom(items, allowedRarities) ==
  { earlierPickAt(itemsToUse(items, allowedRarities), random) :
      random \in RandomBelow(earlierCurrentWeight(
                                itemsToUse(items, allowedRarities),
                                Len(itemsToUse(items, allowedRarities)))) }

\* the two early returns, against the budget handed in
earlierExceedsUserMax(selectedItem, userMaxValue) ==
  \/ /\ earlierBudgetTruthy(userMaxValue)
     /\ Truthy(selectedItem.max_value)
     /\ selectedItem.max_value > userMaxValue.n
  \/ /\ userMaxValue.some
     /\ Truthy(selectedItem.min_value)
     /\ selectedItem.min_value > userMaxValue.n

\* the while loop over table references and what follows it
RECURSIVE earlierWalk(_, _, _, _, _, _, _, _, _)
earlierWalk(selectedItem, breadcrumb, modifiers, totalValue, maxValue, finalItemTable, allowedRarities, pending, parts) ==
  IF selectedItem.kind = "undefined"
  THEN {Thrown(0, "selectedItem.type of undefined")}
  ELSE IF selectedItem.kind = "table"
  THEN UNION { earlierWalk(next, Append(breadcrumb, selectedItem.name),
                           modifiers \o plainModifiers(selectedItem.modifier),
                           totalValue + SumParts(rp),
                           refMaxValue(selectedItem, maxValue),
                           selectedItem.name, allowedRarities,
                           pending \o pendingSpecialModifiers(selectedItem.modifier),
                           parts \o rp \o maxValueParts(selectedItem, maxValue)) :
                 rp \in refParts(selectedItem),
                 next \in earlierWeightedRandom(TableData(selectedItem.name),
                                                allowedRarities) }
  ELSE finishItem(selectedItem, breadcrumb, modifiers, totalValue, maxValue,
                  finalItemTable, parts, pending, 0)

earlierProcessSelectedItem(selectedItem, breadcrumb, userMaxValue, allowedRarities) ==
  IF earlierExceedsUserMax(selectedItem, userMaxValue)
  THEN {SingleResult(Null, breadcrumb, <<>>, 0, 0, TRUE, "", 0, <<>>)}
  ELSE earlierWalk(selectedItem, breadcrumb, <<>>, 0, 0, "", allowedRarities,
                   <<>>, <<>>)

RECURSIVE earlierExpandSet(_, _, _, _, _)
earlierExpandSet(items, k, breadcrumb, userMaxValue, allowedRarities) ==
  IF k > Len(items) THEN { <<>> }
  ELSE UNION {
         IF itemResult.tag = "throw" THEN { << itemResult >> }
         ELSE { << itemResult >> \o rest :
                  rest \in earlierExpandSet(items, k + 1, breadcrumb,
                                            userMaxValue, allowedRarities) } :
         itemResult \in earlierProcessSelectedItem(items[k], breadcrumb,
                                                   userMaxValue, allowedRarities) }

\* the end of the set branch: the set's own max_value is the limit
earlierCloseSet(selectedItem, setResults) ==
  IF setResults # <<>> /\ setResults[Len(setResults)].tag = "throw"
  THEN Thrown(0, setResults[Len(setResults)].cause)
  ELSE IF /\ Truthy(selectedItem.max_value)
          /\ Gt(setTotalValue(setResults), selectedItem.max_value)
  THEN SetResult(<<>>, TRUE, selectedItem.max_value, 0,
                 drawnSet(selectedItem, setResults))
  ELSE SetResult(setResults, FALSE, 0, 0, drawnSet(selectedItem, setResults))

earlierAfterSelect(selectedItem, breadcrumb, userMaxValue, allowedRarities) ==
  IF selectedItem.kind = "undefined"
  THEN {Thrown(0, "selectedItem.items of undefined")}
  ELSE IF IsSetEntry(selectedItem)
  THEN { earlierCloseSet(selectedItem, setResults) :
           setResults \in earlierExpandSet(selectedItem.items, 1, breadcrumb,
                                           userMaxValue, allowedRarities) }
  ELSE earlierProcessSelectedItem(selectedItem, breadcrumb, userMaxValue,
                                  allowedRarities)

\* rollTable(originTable, [], [], 0, null, remainingBudget, null, ...)
earlierRollTable(tableName, userMaxValue) ==
  UNION { earlierAfterSelect(selectedItem, << tableName >>, userMaxValue,
                             allowedRarities) :
            allowedRarities \in RarityDraws(config.rareChance, config.uncommonChance),
            selectedItem \in UNION {
              earlierWeightedRandom(filteredTable(TableData(tableName)), allowed) :
                allowed \in RarityDraws(config.rareChance, config.uncommonChance) } }

\* 'remainingBudget && totalValue > remainingBudget'
earlierOverBudget(totalValue) ==
  /\ earlierBudgetTruthy(earlierRemainingBudget)
  /\ IsNum(totalValue)
  /\ totalValue > earlierRemainingBudget.n

earlierShouldReroll(r) ==
  IF r.tag = "set"
  THEN \/ r.exceeded
       \/ setExceeded(r.setResults)
       \/ earlierOverBudget(setTotalValue(r.setResults))
  ELSE \/ r.exceeded
       \/ overOwnMax(r)
       \/ earlierOverBudget(r.totalValue)

earlierGiveUp(attemptsMade) == attemptsMade >= EARLIER_MAX_REROLL_ATTEMPTS

earlierTargetItemCount ==
  IF config.userMaxValue # 0
  THEN (IF numberOfResults > 1 THEN Min(numberOfResults, MAX_ITEMS_OUTPUT)
        ELSE Min(EARLIER_MAX_REROLL_ATTEMPTS, MAX_ITEMS_OUTPUT))
  ELSE 1

earlierStopAccumulating(attemptsNow) ==
  \/ config.userMaxValue = 0
  \/ attemptsNow >= earlierTargetItemCount
  \/ attemptsNow >= EARLIER_MAX_REROLL_ATTEMPTS

\* one pass of the earlier do-while
EarlierRoll ==
  /\ pc = "roll"
  /\ \E r \in earlierRollTable(originTable, earlierRemainingBudget) :
       IF r.tag = "throw"
       THEN /\ result' = r
            /\ pc' = "crashed"
            /\ UNCHANGED rollAttempts
       ELSE /\ rollAttempts' = rollAttempts + 1
            /\ IF earlierShouldReroll(r)
               THEN IF earlierGiveUp(rollAttempts + 1)
                    THEN result' = NullResult /\ pc' = "collect"
                    ELSE result' = r /\ pc' = "roll"
               ELSE result' = r /\ pc' = "collect"
  /\ UNCHANGED <<scen, originTable, numberOfResults, config, i, results,
                 accumulatedValue, attempts, setRollCount, emitted,
                 diagnostic, fn, arg, out>>

\* from 'If we couldn't find a valid item' to the stop conditions; the earlier
\* script keeps no set index
EarlierCollect ==
  /\ pc = "collect"
  /\ IF couldNotFind(result)
     THEN /\ pc' = "output"
          /\ UNCHANGED <<results, accumulatedValue, attempts>>
     ELSE /\ results' = results \o itemsOf(result, 0)
          /\ accumulatedValue' = accumulatedValue + valueOf(result)
          /\ attempts' = attempts + Len(itemsOf(result, 0))
          /\ pc' = IF earlierStopAccumulating(attempts + Len(itemsOf(result, 0)))
                   THEN "output" ELSE "roll"
  /\ rollAttempts' = 0
  /\ UNCHANGED <<scen, originTable, numberOfResults, config, i, result,
                 setRollCount, emitted, diagnostic, fn, arg, out>>

\* command lines of the earlier script: tables with a weight on every entry
EarlierRuns ==
  { Run(2, "loot", SmallCount, LootBudget),
    Run(2, "loot", 2, 0),
    Run(2, "vault", 1, LootBudget),
    Run(2, "treasury", SmallCount, LootBudget),
    Run(2, "outer", 1, 0) }

EarlierInit == \E run \in EarlierRuns : StartOf(run)

EarlierNext == EarlierRoll \/ EarlierCollect \/ Output \/ NextSet

EarlierSpec == EarlierInit /\ [][EarlierNext]_vars

-----------------------------------------------------------------------------
(* Properties of the Resolver, read off the result of the last roll *)

Resolved(r) == r.tag = "single" /\ r.item # Null

RECURSIVE PartsFrom(_, _)
PartsFrom(ps, src) ==
  IF ps = <<>> THEN 0
  ELSE (IF ps[1].src = src THEN ps[1].v ELSE 0) + PartsFrom(Tail(ps), src)

\* C1: a resolution that goes through one or more table references without
\* modifier down to a leaf with the number v as value has total value v
\* (armor -> light_armor -> Leather Armor, value 10, gives 10).
C1_LeafValueCountedOnce ==
  ( /\ Resolved(result)
    /\ Len(result.breadcrumb) >= 2
    /\ result.modifiers = <<>>
    /\ \A k \in 1..Len(result.parts) : result.parts[k].src = "leaf"
    /\ result.item.dice = <<>> )
  => result.totalValue = result.item.value

\* the value of the items collected so far
RECURSIVE collectedValue(_)
collectedValue(rs) ==
  IF rs = <<>> THEN 0
  ELSE (IF rs[1].res.tag = "single" THEN rs[1].res.totalValue ELSE 0)
       + collectedValue(Tail(rs))

\* C2: with a budget B, the items collected for the result-set are never
\* worth more than B in total.
C2_CollectedValueWithinBudget ==
  config.userMaxValue # 0 => collectedValue(results) <= config.userMaxValue

\* C3: an entry whose max_value or min_value is above the budget never makes
\* the resolution end in a thrown error, at whatever nesting level it is drawn.
C3_PricedOutEntryNeverThrows ==
  ~(result.tag = "throw" /\ result.cause = "selectedItem.value of null")

\* C4: every run of the script ends: each reroll loop and each accumulation
\* loop is left, also when no item can ever fit the budget (a run that ends
\* in an uncaught TypeError has ended too).
C4_RunTerminates == <>(pc \in {"done", "crashed"})

\* a run with a budget no item fits has given up and reached its end
C4_GaveUpAndEnded ==
  /\ pc = "done"
  /\ config.userMaxValue # 0
  /\ result = NullResult
  /\ results = <<>>

\* C5 as stated: once a reroll loop has used up its attempts, nothing is
\* printed for the result-set and the diagnostic is written, whether or not
\* earlier rolls of the result-set were accepted.
C5_ExhaustionPrintsNothing ==
  (pc = "next" /\ result.tag = "null") => (emitted = 0 /\ diagnostic)

\* C5, amended: when a reroll loop uses up its attempts before any roll of
\* the result-set was accepted, nothing is printed for it, the diagnostic is
\* written and the script does not throw; when earlier rolls were accepted
\* the diagnostic is not written.
C5_ExhaustionSoftFailure ==
  /\ (pc = "next" /\ result.tag = "null" /\ setRollCount = 0)
       => (emitted = 0 /\ diagnostic)
  /\ (pc = "next" /\ result.tag = "null" /\ setRollCount > 0) => ~diagnostic
  /\ (result.tag = "null" /\ setRollCount = 0) => pc # "crashed"

\* the first result-set failed that way and the script is at the second one
C5_FailedAndWentOn ==
  /\ i = 1
  /\ pc = "roll"
  /\ result.tag = "null"
  /\ emitted = 0
  /\ diagnostic

\* C6: the script runs min(resultCount, 100) result-sets without a budget and
\* exactly one with a budget.
C6_ResultSetCount ==
  LET expected == IF config.userMaxValue # 0 THEN 1
                  ELSE IF numberOfResults < 100 THEN numberOfResults ELSE 100
  IN  /\ i <= expected
      /\ pc = "done" => i = expected
      /\ pc \in {"roll", "collect", "output", "next"} => i < expected

\* a run asked for more than 100 results has ended after 100 result-sets
C6_CappedRunEnded ==
  /\ pc = "done"
  /\ numberOfResults > 100
  /\ i = 100

\* C7: without a budget a result-set holds the items of exactly one Resolver
\* result, or nothing if the roll failed.
C7_OneRollWithoutBudget ==
  config.userMaxValue = 0 =>
    /\ setRollCount <= 1
    /\ pc \in {"output", "next", "done"} =>
         \/ results = <<>> /\ (result.tag = "single" => ~Resolved(result))
         \/ /\ result.tag = "single"
            /\ results = << [res |-> result, setIndex |-> 0] >>
         \/ /\ result.tag = "set"
            /\ Len(results) = Len(result.setResults)
            /\ \A k \in 1..Len(results) :
                 results[k] = [res |-> result.setResults[k], setIndex |-> 0]

\* a whole set was taken as the one roll of a result-set
C7_SetTakenWhole ==
  /\ config.userMaxValue = 0
  /\ pc = "next"
  /\ result.tag = "set"
  /\ Len(results) = 2

\* the multiplier of the material named last in the modifiers, for table t
LastMaterialValue(r) ==
  LET name == r.modifiers[Len(r.modifiers)]
      k == CHOOSE j \in 1..Len(specialMaterialsData) :
             specialMaterialsData[j].name = name
  IN  specialMaterialsData[k].value[r.finalItemTable]

OneMultiplierApplied(r) ==
  /\ Resolved(r)
  /\ r.modifiers # <<>>
  /\ \E j \in 1..Len(specialMaterialsData) :
       /\ specialMaterialsData[j].name = r.modifiers[Len(r.modifiers)]
       /\ r.finalItemTable \in DOMAIN specialMaterialsData[j].value
  /\ LastMaterialValue(r).kind = "multiplier"

\* C8: with one pending special_materials tag and a material mapped to 'kx',
\* the total value is floor(k * S), S the sum of the additive contributions
\* (the references' values, the leaf value, the numeric bonuses), each once.
C8_MultiplierOnTheSum ==
  OneMultiplierApplied(result) =>
    result.totalValue =
      ( LastMaterialValue(result).num
          * ( PartsFrom(result.parts, "ref") + result.item.value
              + PartsFrom(result.parts, "material") ) )
      \div LastMaterialValue(result).den

-----------------------------------------------------------------------------
(* The rarity draw and weightedRandom on their own, over bounded inputs *)

\* rareChance and uncommonChance offered to the rarity draw
ChanceChoices == {0, 10, 20, 50, 100}

\* longest entry list offered to weightedRandom
MaxLen == 3

\* most dice in a notation offered to rollDice
MaxDice == 2

\* most sides of a die
MaxSides == 6

\* the scalars s of "NdM*s"; 1 stands for the bare "NdM"
DiceScalars == {1, 10}

\* numbers offered to rollDice as they are
PlainValues == 0..3

\* highest -v offered together with --max
MaxCeiling == 4

\* entries of tiered tables: without max_value, and of the tiers 2, 3 and 5
TierPool ==
  { Leaf("Dust", 1, 1, "", 0, 0),
    Wrapper(<< Leaf("Coin", 1, 1, "", 0, 0) >>, 1, 2),
    Wrapper(<< Leaf("Bar", 1, 3, "", 0, 0) >>, 1, 3),
    Leaf("Crown", 1, 1, "", 0, 5) }

TierLists == UNION { [1..n -> TierPool] : n \in 1..MaxLen }

EntryPool ==
  { Leaf("Dagger", 1, 2, "", 0, 0),
    Leaf("Wand", 2, 5, "rare", 0, 0),
    Leaf("Cloak", 0, 3, "uncommon", 0, 0),
    Leaf("Staff", Absent, 4, "", 0, 0),
    Bare(<< Leaf("Coin", 1, 1, "", 0, 0) >>),
    Wrapper(<< Leaf("Bead", 1, 1, "", 0, 0) >>, 2, 0) }

EntryLists == UNION { [1..n -> EntryPool] : n \in 1..MaxLen }

RarityChoices == { {"common"}, {"uncommon"}, {"rare"}, Rarities }

Idle ==
  /\ scen = 0
  /\ originTable = ""
  /\ numberOfResults = 1
  /\ pc = "idle"
  /\ i = 0
  /\ results = <<>>
  /\ accumulatedValue = 0
  /\ attempts = 0
  /\ setRollCount = 0
  /\ rollAttempts = 0
  /\ result = NullResult
  /\ emitted = 0
  /\ diagnostic = FALSE

FnInit ==
  /\ Idle
  /\ out = [done |-> FALSE, val |-> {}]
  /\ \/ /\ fn = "rarity"
        /\ config = configOf(Run(0, "", 1, 0))
        /\ arg \in [rarityRoll : 0..(RARITY_ROLL_RANGE - 1),
                    rareChance : ChanceChoices,
                    uncommonChance : ChanceChoices]
     \/ /\ fn = "select"
        /\ config = configOf(Run(0, "", 1, 0))
        /\ \E items \in EntryLists, allowed \in RarityChoices :
             \E random \in RandomBelow(totalWeight(itemsToUse(items, allowed))) :
               arg = [items |-> items, allowedRarities |-> allowed,
                      random |-> random]
     \/ /\ fn = "dice"
        /\ config = configOf(Run(0, "", 1, 0))
        /\ \/ \E value \in PlainValues : arg = [value |-> value, dice |-> <<>>]
           \/ \E count \in 0..MaxDice, sides \in 1..MaxSides, scalar \in DiceScalars :
                arg = [value |-> 0, dice |-> <<count, sides, scalar>>]
     \/ /\ fn = "filter"
        /\ \E ceiling \in 1..MaxCeiling : config = configOf(RunMax(0, "", 1, ceiling))
        /\ \E items \in TierLists : arg = [items |-> items]

\* lines 270-281 of rollTable
DrawRarity ==
  /\ fn = "rarity"
  /\ ~out.done
  /\ out' = [done |-> TRUE,
             val |-> allowedRaritiesFor(arg.rarityRoll, arg.rareChance,
                                        arg.uncommonChance)]
  /\ UNCHANGED <<scen, originTable, numberOfResults, config, pc, i, results,
                 accumulatedValue, attempts, setRollCount, rollAttempts,
                 result, emitted, diagnostic, fn, arg>>

\* one call of weightedRandom
Select ==
  /\ fn = "select"
  /\ ~out.done
  /\ out' = [done |-> TRUE,
             val |-> weightedRandomAt(arg.items, arg.allowedRarities, arg.random)]
  /\ UNCHANGED <<scen, originTable, numberOfResults, config, pc, i, results,
                 accumulatedValue, attempts, setRollCount, rollAttempts,
                 result, emitted, diagnostic, fn, arg>>

\* one call of rollDice
Evaluate ==
  /\ fn = "dice"
  /\ ~out.done
  /\ \E total \in rollDice(arg.value, arg.dice) :
       out' = [done |-> TRUE, val |-> total]
  /\ UNCHANGED <<scen, originTable, numberOfResults, config, pc, i, results,
                 accumulatedValue, attempts, setRollCount, rollAttempts,
                 result, emitted, diagnostic, fn, arg>>

\* lines 253-266 of rollTable
Filter ==
  /\ fn = "filter"
  /\ ~out.done
  /\ out' = [done |-> TRUE, val |-> filteredTable(arg.items)]
  /\ config' = [config EXCEPT
                  !.actualSetMaxValue = LastWrite(actualSetMaxValueWritten(arg.items), @)]
  /\ UNCHANGED <<scen, originTable, numberOfResults, pc, i, results,
                 accumulatedValue, attempts, setRollCount, rollAttempts,
                 result, emitted, diagnostic, fn, arg>>

FnNext == DrawRarity \/ Select \/ Evaluate \/ Filter

FnSpec == FnInit /\ [][FnNext]_vars

\* C9: a rarity draw makes exactly one class eligible: rare for a roll below
\* rareChance, uncommon for a roll in [rareChance, rareChance + uncommonChance),
\* common otherwise.
C9_ExclusiveRarityBands ==
  (fn = "rarity" /\ out.done) =>
    /\ Cardinality(out.val) = 1
    /\ ("rare" \in out.val) <=> (arg.rarityRoll < arg.rareChance)
    /\ ("uncommon" \in out.val) <=>
         /\ arg.rareChance <= arg.rarityRoll
         /\ arg.rarityRoll < arg.rareChance + arg.uncommonChance
    /\ ("common" \in out.val) <=>
         (arg.rareChance + arg.uncommonChance <= arg.rarityRoll)

\* a roll in the uncommon band has been drawn
C9_UncommonDrawn ==
  /\ fn = "rarity"
  /\ out.done
  /\ arg.rareChance = 10
  /\ arg.uncommonChance = 20
  /\ arg.rarityRoll = 10
  /\ out.val = {"uncommon"}

\* the weight the selector gives an entry, as the data model states it
EntryWeight(e) ==
  IF e.kind = "array" \/ e.weight \in {0, Absent} THEN 1 ELSE e.weight

RECURSIVE WeightUpTo(_, _)
WeightUpTo(items, k) ==
  IF k = 0 THEN 0 ELSE WeightUpTo(items, k - 1) + EntryWeight(items[k])

NonePasses(items, allowed) ==
  \A k \in 1..Len(items) :
    /\ items[k].kind \notin {"array", "wrapper"}
    /\ (IF items[k].rarity = "" THEN "common" ELSE items[k].rarity) \notin allowed

\* C10: for a non-empty list the selector returns an element of the list; when
\* no entry passes the rarity filter the draw is made over the whole list.
C10_SelectsFromTheList ==
  (fn = "select" /\ out.done) =>
    /\ \E k \in 1..Len(arg.items) : out.val = arg.items[k]
    /\ NonePasses(arg.items, arg.allowedRarities) =>
         \E k \in 1..Len(arg.items) :
           /\ out.val = arg.items[k]
           /\ WeightUpTo(arg.items, k - 1) <= arg.random
           /\ arg.random < WeightUpTo(arg.items, k)

\* no entry matched the rolled rarity and the last entry of the list came out
C10_FellBackToWholeList ==
  /\ fn = "select"
  /\ out.done
  /\ Len(arg.items) = 2
  /\ NonePasses(arg.items, arg.allowedRarities)
  /\ arg.random = totalWeight(arg.items) - 1
  /\ out.val = arg.items[2]
  /\ arg.items[1] # arg.items[2]

\* the weight an entry declares: 1 for a bare list and for an entry without
\* weight, the number written in the entry otherwise
DeclaredWeight(e) ==
  IF e.kind = "array" \/ e.weight = Absent THEN 1 ELSE e.weight

RECURSIVE DeclaredUpTo(_, _)
DeclaredUpTo(items, k) ==
  IF k = 0 THEN 0 ELSE DeclaredUpTo(items, k - 1) + DeclaredWeight(items[k])

\* C11: the selector returns the first candidate entry whose cumulative
\* declared weight is above the draw, so each entry is selected by as many
\* draws as its weight says and an entry of weight 0 by none.
C11_DrawsMatchDeclaredWeight ==
  (fn = "select" /\ out.done) =>
    LET candidates == itemsToUse(arg.items, arg.allowedRarities)
    IN  \E k \in 1..Len(candidates) :
          /\ out.val = candidates[k]
          /\ DeclaredUpTo(candidates, k - 1) <= arg.random
          /\ arg.random < DeclaredUpTo(candidates, k)

\* C12: "NdM" evaluates to an integer in [N, N*M], "NdM*s" to s times such an
\* integer, and a number to itself ("2d6" is in [2,12], "2d6*10" is a
\* multiple of 10 in [20,120]).
C12_DiceWithinRange ==
  (fn = "dice" /\ out.done) =>
    IF arg.dice = <<>> THEN out.val = arg.value
    ELSE \E t \in arg.dice[1]..(arg.dice[1] * arg.dice[2]) :
           out.val = t * arg.dice[3]

\* "2d6*10" came out at the top of its range
C12_TwoSixesTimesTen ==
  /\ fn = "dice"
  /\ out.done
  /\ arg.dice = <<2, 6, 10>>
  /\ out.val = 120

\* C13: within one roll the Resolver is called at most MAX_REROLL_ATTEMPTS
\* times; when the call that reaches the ceiling is rejected too, the roll has
\* no result and the accumulation loop of the result-set is left with nothing
\* added.
C13_RerollCeiling ==
  /\ [](rollAttempts <= MAX_REROLL_ATTEMPTS)
  /\ []((pc = "roll" /\ rollAttempts > 0) => shouldReroll(result))
  /\ []((pc = "collect" /\ result.tag = "null")
          => rollAttempts = MAX_REROLL_ATTEMPTS)
  /\ [][ (pc = "roll" /\ rollAttempts = MAX_REROLL_ATTEMPTS - 1 /\ pc' # "crashed")
           => (pc' = "collect" /\ (result'.tag = "null" \/ ~shouldReroll(result'))) ]_vars
  /\ [][ (pc = "collect" /\ result.tag = "null")
           => (pc' = "output" /\ results' = results) ]_vars

\* the ceiling-th call was rejected and the roll ended without a result
C13_CeilingReached ==
  /\ pc = "collect"
  /\ result.tag = "null"
  /\ rollAttempts = MAX_REROLL_ATTEMPTS

\* the effective limit of a set entry with max_value m, as the Resolver's
\* contract states it
SetLimit(m) == IF config.userMaxValue > m THEN config.userMaxValue ELSE m

\* C14: a set whose entry has a max_value and whose members are worth more
\* than the effective limit comes back flagged exceeded and without items, and
\* an exceeded set never carries items; the result-set grows by all members
\* of the set just resolved or not at all.
C14_SetWholeOrNothing ==
  /\ []( (result.tag = "set" /\ Truthy(result.drawn.max_value)
            /\ Gt(result.drawn.sum, SetLimit(result.drawn.max_value)))
          => (result.exceeded /\ result.setResults = <<>>) )
  /\ []( (result.tag = "set" /\ result.exceeded) => result.setResults = <<>> )
  /\ [][ (result.tag = "set" /\ results' # results /\ results' # <<>>)
           => /\ Len(results') = Len(results) + Len(result.setResults)
              /\ SubSeq(results', 1, Len(results)) = results
              /\ \A k \in 1..Len(result.setResults) :
                   results'[Len(results) + k].res = result.setResults[k] ]_vars

\* a set above its own max_value was flagged exceeded
C14_SetRejected ==
  /\ result.tag = "set"
  /\ result.exceeded
  /\ result.drawn.sum > result.drawn.max_value

\* the special materials named in a result's modifiers, in selection order
SelectedMaterials(r) ==
  SelectSeq(r.modifiers,
            LAMBDA name : \E j \in 1..Len(specialMaterialsData) :
                            specialMaterialsData[j].name = name)

MaterialValue(name, table) ==
  specialMaterialsData[CHOOSE j \in 1..Len(specialMaterialsData) :
                         specialMaterialsData[j].name = name].value[table]

\* the multiplier selected last among the materials, 1 when none is one
RECURSIVE LastMultiplier(_, _)
LastMultiplier(names, table) ==
  IF names = <<>> THEN NoMultiplier
  ELSE IF MaterialValue(names[Len(names)], table).kind = "multiplier"
  THEN [num |-> MaterialValue(names[Len(names)], table).num,
        den |-> MaterialValue(names[Len(names)], table).den]
  ELSE LastMultiplier(SubSeq(names, 1, Len(names) - 1), table)

\* everything added to the total: reference values, leaf value, bonuses
AdditiveSum(r) ==
  PartsFrom(r.parts, "ref") + PartsFrom(r.parts, "leaf")
    + PartsFrom(r.parts, "material")

\* C15: when two or more special_materials tags were pending in one
\* resolution, the total is the sum of everything added, every material bonus
\* included, times the multiplier selected last: no earlier multiplier has
\* been applied.
C15_LastMultiplierOnly ==
  (Resolved(result) /\ Len(SelectedMaterials(result)) >= 2) =>
    LET mult == LastMultiplier(SelectedMaterials(result), result.finalItemTable)
    IN  result.totalValue = (AdditiveSum(result) * mult.num) \div mult.den

\* the max_value tiers of a table that are not above the ceiling
TiersWithin(items, ceiling) ==
  { items[k].max_value : k \in 1..Len(items) } \cap 1..ceiling

\* C16: with the filter active and ceiling C, the candidates of a draw are
\* exactly the entries whose max_value is the greatest max_value <= C in the
\* table; when the table has no max_value <= C all its entries stay candidates.
C16_ClosestTierOnly ==
  (fn = "filter" /\ out.done) =>
    LET tiers == TiersWithin(arg.items, config.filterMaxValue)
    IN  IF tiers = {} THEN out.val = arg.items
        ELSE out.val = SelectSeq(arg.items,
                                 LAMBDA item : /\ item.max_value \in tiers
                                               /\ \A t \in tiers : t <= item.max_value)

\* of the tiers 2, 3 and 5 only the entry of tier 3 is left under ceiling 4
C16_MiddleTierKept ==
  /\ fn = "filter"
  /\ out.done
  /\ config.filterMaxValue = 4
  /\ { arg.items[k].max_value : k \in 1..Len(arg.items) } = {2, 3, 5}
  /\ Len(out.val) = 1
  /\ out.val[1].max_value = 3

\* C17 as stated: no step of a run changes any field of config.
C17_ConfigNeverWritten == [][config' = config]_vars

GreatestTier(items, ceiling) ==
  CHOOSE t \in TiersWithin(items, ceiling) :
    \A u \in TiersWithin(items, ceiling) : u <= t

\* C17, amended: userMaxValue, filterMaxValue, rareChance and uncommonChance
\* are never written after startup; actualSetMaxValue is written by rollTable
\* alone, only while the max_value filter is active, and then holds the
\* greatest max_value not above filterMaxValue of a table rolled on.
C17_OnlyTierFieldWritten ==
  /\ [][ /\ config'.userMaxValue = config.userMaxValue
         /\ config'.filterMaxValue = config.filterMaxValue
         /\ config'.rareChance = config.rareChance
         /\ config'.uncommonChance = config.uncommonChance ]_vars
  /\ [][ config' # config =>
           /\ pc = "roll"
           /\ config.filterMaxValue # 0
           /\ \E t \in DOMAIN DataDir(scen) :
                /\ TiersWithin(TableData(t), config.filterMaxValue) # {}
                /\ config'.actualSetMaxValue =
                     GreatestTier(TableData(t), config.filterMaxValue) ]_vars
  /\ [](config.filterMaxValue = 0 => config.actualSetMaxValue = 0)

\* a roll under --max has stored the tier it selected from
C17_TierStored ==
  /\ config.filterMaxValue # 0
  /\ config.actualSetMaxValue # 0
  /\ config.actualSetMaxValue < config.filterMaxValue

\* the results a roll hands over: the result itself or the members of a set
ResolvedIn(r) ==
  IF r.tag = "set"
  THEN { r.setResults[k] : k \in 1..Len(r.setResults) }
  ELSE {r}

\* the changes of the running total among the logged steps
ValueParts(r) == SelectSeq(r.parts, LAMBDA part : part.src # "max_value")

NeverDecreased(r) == \A k \in 1..Len(ValueParts(r)) : ValueParts(r)[k].v >= 0

NoShrinkingMaterial(r) ==
  \A k \in 1..Len(SelectedMaterials(r)) :
    LET value == MaterialValue(SelectedMaterials(r)[k], r.finalItemTable)
    IN  value.kind = "multiplier" => value.num >= value.den

Ceilings(r) == SelectSeq(r.parts, LAMBDA part : part.src = "max_value")

\* C19: along one resolution path the ceiling, once a table reference with
\* max_value has set it, is never back to none, and every later reference
\* that changes it makes it lower or leaves it equal.
C19_CeilingOnlyTightens ==
  \A r \in ResolvedIn(result) :
    (Resolved(r) /\ Ceilings(r) # <<>>) =>
      /\ r.maxValue = Ceilings(r)[Len(Ceilings(r))].v
      /\ r.maxValue # 0
      /\ \A k \in 1..(Len(Ceilings(r)) - 1) :
           Ceilings(r)[k + 1].v <= Ceilings(r)[k].v

\* the entries of a table, those inside its sets included
EntriesOf(tableName) ==
  LET tableData == TableData(tableName)
  IN  { tableData[k] : k \in 1..Len(tableData) }
        \cup UNION { { tableData[k].items[j] : j \in 1..Len(tableData[k].items) } :
                       k \in 1..Len(tableData) }

RefersTo(tableName, name) ==
  \E entry \in EntriesOf(tableName) : entry.kind = "table" /\ entry.name = name

\* origin first, then the name of each reference taken, down to the table
\* the item is an entry of
FollowsThePath(r) ==
  /\ r.breadcrumb # <<>>
  /\ r.breadcrumb[1] = originTable
  /\ \A k \in 1..(Len(r.breadcrumb) - 1) :
       RefersTo(r.breadcrumb[k], r.breadcrumb[k + 1])
  /\ r.item \in EntriesOf(r.breadcrumb[Len(r.breadcrumb)])

\* C20 as stated: the breadcrumb of a resolved item is the origin table
\* followed by the name of each table reference taken, in order, and no two
\* consecutive entries are equal.
C20_PathWithoutRepeats ==
  \A r \in ResolvedIn(result) :
    Resolved(r) =>
      /\ FollowsThePath(r)
      /\ \A k \in 1..(Len(r.breadcrumb) - 1) : r.breadcrumb[k] # r.breadcrumb[k + 1]

\* C20, amended: the breadcrumb is the origin table followed by the name of
\* each reference taken, in order; two consecutive entries are equal only
\* where a table holds a reference to itself and that reference was taken.
C20_PathRepeatsOnlySelfReference ==
  \A r \in ResolvedIn(result) :
    Resolved(r) =>
      /\ FollowsThePath(r)
      /\ \A k \in 1..(Len(r.breadcrumb) - 1) :
           r.breadcrumb[k] = r.breadcrumb[k + 1]
             => RefersTo(r.breadcrumb[k], r.breadcrumb[k])

\* an item reached through two references, each named once
C20_ThreeTablesDeep ==
  /\ Resolved(result)
  /\ result.breadcrumb = << "gear", "armor", "light_armor" >>
  /\ result.item.name = "Leather Armor"

\* C21: within a result-set the items added by one accepted roll share one
\* setIndex, the items of the next accepted roll carry the next one, and the
\* values are 0, 1, 2, ... in the order of acceptance without gaps.
C21_SetIndexCountsAcceptedRolls ==
  /\ []( results # <<>> => results[1].setIndex = 0 )
  /\ []( \A k \in 1..(Len(results) - 1) :
           results[k + 1].setIndex \in {results[k].setIndex, results[k].setIndex + 1} )
  /\ []( (results # <<>> /\ pc # "done")
           => results[Len(results)].setIndex = setRollCount - 1 )
  /\ [][ (pc = "collect" /\ results' # results) =>
           /\ SubSeq(results', 1, Len(results)) = results
           /\ \A k \in (Len(results) + 1)..Len(results') :
                results'[k].setIndex = setRollCount
           /\ \A k \in 1..Len(results) : results[k].setIndex < setRollCount
           /\ setRollCount' = setRollCount + 1 ]_vars

\* a set of two items was accepted first and a single item after it
C21_SetThenSingle ==
  /\ Len(results) = 3
  /\ results[1].setIndex = 0
  /\ results[2].setIndex = 0
  /\ results[3].setIndex = 1

\* C22: with a budget and resultCount N > 1 the result-set never holds more
\* than min(N, 100) items, whatever mix of single items and sets is accepted.
C22_ItemTargetNeverPassed ==
  (config.userMaxValue # 0 /\ numberOfResults > 1) =>
    Len(results) <= (IF numberOfResults < 100 THEN numberOfResults ELSE 100)

\* C23: every entry of the result-set is a single resolved item: a leaf item
\* that is not null, not flagged exceeded, and worth no more than the ceiling
\* its path set; no exceeded result and no set result is in the result-set.
C23_OnlyResolvedItemsCollected ==
  \A k \in 1..Len(results) :
    /\ results[k].res.tag = "single"
    /\ results[k].res.item # Null
    /\ results[k].res.item.kind = "leaf"
    /\ ~results[k].res.exceeded
    /\ Truthy(results[k].res.maxValue)
         => results[k].res.totalValue <= results[k].res.maxValue

\* C24 as stated: the terminal table of every resolved item is the last
\* breadcrumb entry, also when the leaf is drawn from the origin table.
C24_TerminalTableIsLastCrumb ==
  \A r \in ResolvedIn(result) :
    Resolved(r) => r.finalItemTable = r.breadcrumb[Len(r.breadcrumb)]

\* C24, amended: the terminal table of a resolved item reached through at
\* least one table reference is the last breadcrumb entry; an item drawn from
\* the origin table itself has no terminal table (null).
C24_TerminalTableAfterReference ==
  \A r \in ResolvedIn(result) :
    Resolved(r) =>
      IF Len(r.breadcrumb) >= 2
      THEN r.finalItemTable = r.breadcrumb[Len(r.breadcrumb)]
      ELSE r.finalItemTable = ""

\* a material was looked up under the table reached through two references
C24_MaterialForLastTable ==
  /\ Resolved(result)
  /\ result.breadcrumb = << "forge", "blades", "weapons" >>
  /\ result.finalItemTable = "weapons"
  /\ SelectedMaterials(result) # <<>>

\* the modifier tag belongs to a reference on the path the breadcrumb names
TagOnPath(tag, breadcrumb) ==
  \E k \in 1..(Len(breadcrumb) - 1) :
    \E entry \in EntriesOf(breadcrumb[k]) :
      /\ entry.kind = "table"
      /\ entry.name = breadcrumb[k + 1]
      /\ \E j \in 1..Len(entry.modifier) : entry.modifier[j] = tag

IsMaterialName(tag) ==
  \E j \in 1..Len(specialMaterialsData) : specialMaterialsData[j].name = tag

\* C25: each member of an expanded set is resolved from its own copy of the
\* breadcrumb and the modifiers as they were when the set was drawn: its
\* breadcrumb is its own path and each of its modifiers comes from a
\* reference on that path, never from a sibling's, in whatever order the
\* members stand.
C25_SetMembersIndependent ==
  result.tag = "set" =>
    \A k \in 1..Len(result.setResults) :
      LET r == result.setResults[k]
      IN  Resolved(r) =>
            /\ FollowsThePath(r)
            /\ \A j \in 1..Len(r.modifiers) :
                 TagOnPath(r.modifiers[j], r.breadcrumb)
                   \/ IsMaterialName(r.modifiers[j])

\* two members behind different references, each with its own modifier
C25_SiblingsKeptApart ==
  /\ result.tag = "set"
  /\ Len(result.setResults) = 2
  /\ result.setResults[1].breadcrumb = << "bundle", "weapons" >>
  /\ result.setResults[1].modifiers = << "masterwork" >>
  /\ result.setResults[2].breadcrumb = << "bundle", "trinkets" >>
  /\ result.setResults[2].modifiers = << "lucky" >>

Largest(S) == CHOOSE n \in S : \A o \in S : o <= n

\* the longest chain of table references starting at a table, counted up to
\* fuel references
RECURSIVE ChainWithin(_, _)
ChainWithin(tableName, fuel) ==
  IF fuel = 0 THEN 0
  ELSE Largest({0} \cup { 1 + ChainWithin(entry.name, fuel - 1) :
                            entry \in { e \in EntriesOf(tableName) : e.kind = "table" } })

TableCount == Cardinality(DOMAIN DataDir(scen))

\* no chain of references from the table comes back to a table it went through
Acyclic(tableName) == ChainWithin(tableName, TableCount) < TableCount

\* C26: for acyclic data whose longest chain of references from the origin
\* has d references, the breadcrumb of every resolved item has at most d + 1
\* entries: no resolution makes more than d table hops.
C26_HopsBoundedByLongestChain ==
  Acyclic(originTable) =>
    \A r \in ResolvedIn(result) :
      Resolved(r) =>
        Len(r.breadcrumb) <= ChainWithin(originTable, TableCount) + 1

\* a leaf was drawn after five table hops
C26_FiveHops ==
  /\ Resolved(result)
  /\ Acyclic(originTable)
  /\ ChainWithin(originTable, TableCount) = 5
  /\ Len(result.breadcrumb) = 6

\* what the references along a breadcrumb can contribute from its k-th table
\* on: their tags other than the sentinel, in path order, and the number of
\* sentinels; a set, since a table may hold several references of one name
RECURSIVE PathTags(_, _)
PathTags(breadcrumb, k) ==
  IF k >= Len(breadcrumb) THEN { [tags |-> <<>>, sentinels |-> 0] }
  ELSE { [tags |-> SelectSeq(entry.modifier, LAMBDA tag : tag # SPECIAL) \o rest.tags,
          sentinels |-> Len(SelectSeq(entry.modifier, LAMBDA tag : tag = SPECIAL))
                          + rest.sentinels] :
           entry \in { e \in EntriesOf(breadcrumb[k]) :
                         e.kind = "table" /\ e.name = breadcrumb[k + 1] },
           rest \in PathTags(breadcrumb, k + 1) }

\* C27: the sentinel special_materials is never among the modifiers of a
\* resolved item; the other tags of the references taken are there in path
\* order, and each sentinel adds at most the name of one material.
C27_SentinelNeverAModifier ==
  \A r \in ResolvedIn(result) :
    Resolved(r) =>
      /\ \A j \in 1..Len(r.modifiers) : r.modifiers[j] # SPECIAL
      /\ \E path \in PathTags(r.breadcrumb, 1) :
           /\ SelectSeq(r.modifiers, LAMBDA tag : ~IsMaterialName(tag)) = path.tags
           /\ Len(SelectedMaterials(r)) <= path.sentinels

\* a reference tagged masterwork and special_materials gave its plain tag and
\* the material's name
C27_TagThenMaterial ==
  /\ Resolved(result)
  /\ result.breadcrumb = << "shop", "weapons" >>
  /\ result.modifiers = << "masterwork", "Silver" >>

\* C28: in the earlier script, with a budget B the accumulated value of the
\* result-set is never above B, also for rolls made once the remaining
\* budget is exactly 0.
C28_EarlierBudgetKept ==
  config.userMaxValue # 0 => accumulatedValue <= config.userMaxValue

=============================================================================
